---------------------------- MODULE Spec2Model ----------------------------
(***************************************************************************)
(* A model of custom::unordered_set (hash.h) over custom::list (list.h).   *)
(*                                                                         *)
(* A list is a record of its three members plus the nodes it owns: `node'  *)
(* maps a node's address to its data, pNext and pPrev.  Address 0 is       *)
(* nullptr.  The bucket table (custom::vector, vector.h) is a function     *)
(* from 0..n-1 to lists; a vector iterator is an index, end() being n.     *)
(* maxLoadFactor, a float, is kept as the exact fraction num/den.          *)
(***************************************************************************)
EXTENDS Integers, Sequences, FiniteSets, TLC

\* Element values are 0 .. MaxVal-1.
MaxVal == 3
\* Largest bucket count a caller passes to the constructor or to rehash.
MaxBuckets == 3
\* Largest element count a caller passes to reserve.
MaxReserve == 3

\* With two sets, where copies, moves and swaps square the number of states:
\* element values are 0 .. PairMaxVal-1, and rehash and reserve are called
\* with at most PairMaxVal.
PairMaxVal == 2

Values == 0 .. (MaxVal - 1)
PairValues == 0 .. (PairMaxVal - 1)

\* The program that uses a list on its own lets it grow to MaxListLen nodes.
MaxListLen == 3
\* The data it stores. A list never looks at its data; two values tell a node
\* from its neighbours.
ListValues == {0, 1}
\* The ranges a list is constructed from, to be copied from.
ListSeqs == UNION { [1 .. n -> ListValues] : n \in 0 .. MaxListLen }
Names == {"a", "b"}

\* The values max_load_factor(float) is called with: 0.5, 1.0 and 2.0.
LoadFactors ==
  { [num |-> 1, den |-> 2], [num |-> 1, den |-> 1], [num |-> 2, den |-> 1] }

VARIABLES
  cfg,   \* the Hash / EqPred template arguments the sets are instantiated with
  s,     \* s[x]: the members of set x (buckets, numElements, maxLoadFactor)
  ref,   \* ref[x]: the mathematical set run side by side with set x
  ret,   \* what the calling program keeps of its last call: the call's name,
         \* receiver and argument and the value it returned
  lst,   \* the members and nodes of the list of the program that uses a list
         \* on its own
  lret   \* what that program keeps of its last call on the list

vars == <<cfg, s, ref, ret, lst, lret>>

PairLoadFactors == { [num |-> 1, den |-> 2], [num |-> 1, den |-> 1] }

-----------------------------------------------------------------------------
(* Template arguments *)

\* Hash()(t): std::hash<int>, or a hash that agrees with the custom EqPred.
Hash(t) == IF cfg = "std" THEN t ELSE t % 2

\* EqPred()(a, b): std::equal_to<int>, or equality modulo 2.
EqPred(a, b) == IF cfg = "std" THEN a = b ELSE (a % 2) = (b % 2)

\* operator== of T, which is what the code compares elements with.
ValueEq(a, b) == a = b

-----------------------------------------------------------------------------
(* custom::list *)

nullptr == 0

EmptyList ==
  [pHead |-> nullptr, pTail |-> nullptr, numElements |-> 0, node |-> <<>>]

\* new Node: an address no live node of the list has.
NewNode(l) ==
  CHOOSE p \in 1 .. (Cardinality(DOMAIN l.node) + 1) :
    /\ p \notin DOMAIN l.node
    /\ \A q \in 1 .. (p - 1) : q \in DOMAIN l.node

\* delete p
DeleteNode(node, p) == [q \in (DOMAIN node) \ {p} |-> node[q]]

list_begin(l) == l.pHead
list_end(l) == nullptr
list_empty(l) == l.numElements = 0
list_size(l) == l.numElements

\* list::iterator::operator++ and operator*
ListNext(l, p) == l.node[p].pNext
ListDeref(l, p) == l.node[p].data

list_push_back(l, data) ==
  LET pNew == NewNode(l)
      n0   == l.node @@ (pNew :> [data |-> data, pNext |-> nullptr, pPrev |-> l.pTail])
      n1   == IF l.pTail # nullptr THEN [n0 EXCEPT ![l.pTail].pNext = pNew] ELSE n0
  IN  [pHead       |-> IF l.pTail # nullptr THEN l.pHead ELSE pNew,
       pTail       |-> pNew,
       numElements |-> l.numElements + 1,
       node        |-> n1]

\* Mutant of list_erase: the next node's pPrev is not relinked.
list_erase_NoBackLink(l, p) ==
  IF p = nullptr
  THEN [list |-> l, it |-> p]
  ELSE
    LET pNext  == l.node[p].pNext
        pPrev  == l.node[p].pPrev
        itNext == IF pNext # nullptr THEN pNext ELSE nullptr
        tail1  == IF pNext # nullptr THEN l.pTail ELSE l.node[l.pTail].pPrev
        n2     == IF pPrev # nullptr THEN [l.node EXCEPT ![pPrev].pNext = pNext] ELSE l.node
        head1  == IF pPrev # nullptr THEN l.pHead ELSE l.node[l.pHead].pNext
    IN  [list |-> [pHead       |-> head1,
                   pTail       |-> tail1,
                   numElements |-> l.numElements - 1,
                   node        |-> DeleteNode(n2, p)],
         it   |-> itNext]

\* list::erase(it): the list afterwards and the iterator returned.
list_erase(l, p) ==
  IF p = nullptr
  THEN [list |-> l, it |-> p]
  ELSE
    LET pNext  == l.node[p].pNext
        pPrev  == l.node[p].pPrev
        n1     == IF pNext # nullptr THEN [l.node EXCEPT ![pNext].pPrev = pPrev] ELSE l.node
        itNext == IF pNext # nullptr THEN pNext ELSE nullptr
        tail1  == IF pNext # nullptr THEN l.pTail ELSE l.node[l.pTail].pPrev
        n2     == IF pPrev # nullptr THEN [n1 EXCEPT ![pPrev].pNext = pNext] ELSE n1
        head1  == IF pPrev # nullptr THEN l.pHead ELSE n1[l.pHead].pNext
    IN  [list |-> [pHead       |-> head1,
                   pTail       |-> tail1,
                   numElements |-> l.numElements - 1,
                   node        |-> DeleteNode(n2, p)],
         it   |-> itNext]

RECURSIVE ClearFrom(_, _)
ClearFrom(node, p) ==
  IF p = nullptr THEN node ELSE ClearFrom(DeleteNode(node, p), node[p].pNext)

list_clear(l) ==
  [pHead |-> nullptr, pTail |-> nullptr, numElements |-> 0,
   node |-> ClearFrom(l.node, l.pHead)]


\* list_find (hash.h): the first node of the chain whose data == t, or end().
RECURSIVE ListFindFrom(_, _, _)
ListFindFrom(l, p, t) ==
  IF p = list_end(l) THEN list_end(l)
  ELSE IF ValueEq(ListDeref(l, p), t) THEN p
  ELSE ListFindFrom(l, ListNext(l, p), t)

list_find(l, t) == ListFindFrom(l, list_begin(l), t)

\* list::operator=(list&), "Fill existing nodes": the loop over both chains.
RECURSIVE AssignFill(_, _, _, _)
AssignFill(node, rhs, itLHS, itRHS) ==
  IF itRHS # nullptr /\ itLHS # nullptr
  THEN AssignFill([node EXCEPT ![itLHS].data = rhs.node[itRHS].data], rhs,
                  node[itLHS].pNext, rhs.node[itRHS].pNext)
  ELSE [node |-> node, itLHS |-> itLHS, itRHS |-> itRHS]

\* "Create new nodes if RHS is bigger": push_back of the rest of rhs.
RECURSIVE AssignAppend(_, _, _)
AssignAppend(l, rhs, itRHS) ==
  IF itRHS = nullptr THEN l
  ELSE AssignAppend(list_push_back(l, rhs.node[itRHS].data), rhs, rhs.node[itRHS].pNext)

\* "Remove extra nodes if RHS is smaller": delete from p on, counting down.
RECURSIVE AssignTrim(_, _)
AssignTrim(l, p) ==
  IF p = nullptr THEN l
  ELSE AssignTrim([l EXCEPT !.node = DeleteNode(l.node, p),
                            !.numElements = l.numElements - 1],
                  l.node[p].pNext)

\* Mutant of list_assign: the extra nodes of a longer lhs are kept.
list_assign_KeepsSurplus(lhs, rhs) ==
  LET f  == AssignFill(lhs.node, rhs, list_begin(lhs), list_begin(rhs))
      l1 == [lhs EXCEPT !.node = f.node]
  IN  IF f.itRHS # nullptr THEN AssignAppend(l1, rhs, f.itRHS)
      ELSE IF list_empty(rhs) THEN list_clear(l1)
      ELSE l1

list_assign(lhs, rhs) ==
  LET f  == AssignFill(lhs.node, rhs, list_begin(lhs), list_begin(rhs))
      l1 == [lhs EXCEPT !.node = f.node]
  IN  IF f.itRHS # nullptr THEN AssignAppend(l1, rhs, f.itRHS)
      ELSE IF list_empty(rhs) THEN list_clear(l1)
      ELSE IF f.itLHS # nullptr
      THEN LET pTail == l1.node[f.itLHS].pPrev
               l2    == AssignTrim(l1, f.itLHS)
           IN  IF pTail # nullptr
               THEN [l2 EXCEPT !.node[pTail].pNext = nullptr, !.pTail = pTail]
               ELSE [l2 EXCEPT !.pHead = nullptr, !.pTail = nullptr]
      ELSE l1

\* list(list& rhs): an empty list assigned from rhs.
list_copy(rhs) == list_assign(EmptyList, rhs)

\* Mutant of list_push_front: the old head's pPrev is left null.
list_push_front_NoBackLink(l, data) ==
  LET pNew == NewNode(l)
  IN  [pHead       |-> pNew,
       pTail       |-> IF l.pHead # nullptr THEN l.pTail ELSE pNew,
       numElements |-> l.numElements + 1,
       node        |-> l.node @@ (pNew :> [data |-> data, pNext |-> l.pHead,
                                           pPrev |-> nullptr])]

list_push_front(l, data) ==
  LET pNew == NewNode(l)
      n0   == l.node @@ (pNew :> [data |-> data, pNext |-> l.pHead, pPrev |-> nullptr])
      n1   == IF l.pHead # nullptr THEN [n0 EXCEPT ![l.pHead].pPrev = pNew] ELSE n0
  IN  [pHead       |-> pNew,
       pTail       |-> IF l.pHead # nullptr THEN l.pTail ELSE pNew,
       numElements |-> l.numElements + 1,
       node        |-> n1]

\* Mutant of list_insert: the new node goes after it's node, not before.
list_insert_After(l, it, data) ==
  LET pNew == NewNode(l)
  IN  IF list_empty(l) \/ it = list_end(l) \/ it = l.pTail
      THEN [list |-> list_push_back(l, data), it |-> pNew]
      ELSE LET pNext == l.node[it].pNext
               n0    == l.node @@ (pNew :> [data |-> data, pNext |-> pNext, pPrev |-> it])
           IN  [list |-> [l EXCEPT !.node = [n0 EXCEPT ![it].pNext = pNew,
                                                       ![pNext].pPrev = pNew],
                                   !.numElements = @ + 1],
                it   |-> pNew]

\* list::insert(it, data): the list afterwards and the iterator returned.
list_insert(l, it, data) ==
  LET pNew == NewNode(l)
  IN  IF list_empty(l)
      THEN LET l1 == [pHead |-> pNew, pTail |-> pNew, numElements |-> 1,
                      node |-> l.node @@ (pNew :> [data |-> data, pNext |-> nullptr,
                                                   pPrev |-> nullptr])]
           IN  [list |-> l1, it |-> list_begin(l1)]
      ELSE IF it = list_end(l)
      THEN LET n0 == l.node @@ (pNew :> [data |-> data, pNext |-> nullptr,
                                         pPrev |-> l.pTail])
           IN  [list |-> [l EXCEPT !.node = [n0 EXCEPT ![l.pTail].pNext = pNew],
                                   !.pTail = pNew,
                                   !.numElements = @ + 1],
                it   |-> pNew]
      ELSE LET pPrev == l.node[it].pPrev
               n0    == l.node @@ (pNew :> [data |-> data, pNext |-> it, pPrev |-> pPrev])
               n1    == IF pPrev # nullptr THEN [n0 EXCEPT ![pPrev].pNext = pNew] ELSE n0
               n2    == IF it # nullptr THEN [n1 EXCEPT ![it].pPrev = pNew] ELSE n1
           IN  [list |-> [pHead       |-> IF pPrev # nullptr THEN l.pHead ELSE pNew,
                          pTail       |-> IF it # nullptr THEN l.pTail ELSE pNew,
                          numElements |-> l.numElements + 1,
                          node        |-> n2],
                it   |-> pNew]

list_pop_back(l) ==
  IF ~list_empty(l)
  THEN LET newTail == l.node[l.pTail].pPrev
       IN  [list_erase(l, l.pTail).list EXCEPT !.pTail = newTail]
  ELSE l

list_pop_front(l) ==
  IF ~list_empty(l)
  THEN LET newHead == l.node[l.pHead].pNext
       IN  [list_erase(l, l.pHead).list EXCEPT !.pHead = newHead]
  ELSE l

\* Mutant of list_front: nothing is thrown on an empty list.
list_front_NoThrow(l) ==
  IF ~list_empty(l)
  THEN [threw |-> FALSE, data |-> l.node[l.pHead].data]
  ELSE [threw |-> FALSE, data |-> -1]

\* list::front(): whether it threw, and the data returned if it did not (-1
\* stands for nothing returned).
list_front(l) ==
  IF ~list_empty(l)
  THEN [threw |-> FALSE, data |-> l.node[l.pHead].data]
  ELSE [threw |-> TRUE, data |-> -1]

\* list::back(), likewise.
list_back(l) ==
  IF ~list_empty(l)
  THEN [threw |-> FALSE, data |-> l.node[l.pTail].data]
  ELSE [threw |-> TRUE, data |-> -1]

\* list::swap(rhs): the three members change sides, and with them the nodes
\* they reach. The receiver and rhs afterwards.
list_swap(lhs, rhs) == [lhs |-> rhs, rhs |-> lhs]

\* list::operator=(list&& rhs): clear(), then swap(rhs).
list_move_assign(lhs, rhs) == list_swap(list_clear(lhs), rhs)

\* list(num, t): t pushed back num times.
RECURSIVE list_fill(_, _, _)
list_fill(l, num, data) ==
  IF num = 0 THEN l ELSE list_fill(list_push_back(l, data), num - 1, data)

\* list(first, last): the elements of seq pushed back one after the other.
RECURSIVE list_range(_, _)
list_range(l, seq) ==
  IF seq = <<>> THEN l ELSE list_range(list_push_back(l, Head(seq)), Tail(seq))

\* What a program that has only constructed its list keeps of the call.
NoListCall ==
  [op |-> "construct", it |-> nullptr, data |-> -1, itRet |-> nullptr,
   dataRet |-> -1, threw |-> FALSE, other |-> EmptyList, before |-> 0]

-----------------------------------------------------------------------------
(* custom::vector<custom::list<T>>, the bucket table *)

\* vector(num): num default-constructed lists.
vector_new(num) == [i \in 0 .. (num - 1) |-> EmptyList]
vector_size(v) == Cardinality(DOMAIN v)
vector_begin(v) == 0
vector_end(v) == vector_size(v)
\* What a vector is left as when it has been moved from.
vector_moved_from == vector_new(0)
\* vector copy assignment: every cell a copy of the source's cell.
vector_copy(v) == [i \in DOMAIN v |-> list_copy(v[i])]

-----------------------------------------------------------------------------
(* custom::unordered_set *)

One == [num |-> 1, den |-> 1]

\* size_t(num / maxLoadFactor): the float quotient truncated.
FloatDivToSize(num, m) == (num * m.den) \div m.num

unordered_set(numBuckets) ==
  [buckets |-> vector_new(numBuckets), numElements |-> 0, maxLoadFactor |-> One]

DefaultBuckets == 8
unordered_set_default == unordered_set(DefaultBuckets)

size(set) == set.numElements
bucket_count(set) == vector_size(set.buckets)
bucket_size(set, i) == list_size(set.buckets[i])

bucket(set, t) ==
  IF bucket_count(set) = 0 THEN 0 ELSE Hash(t) % bucket_count(set)

\* load_factor(): numElements / bucket_count() is a division of integers,
\* whose quotient is then converted to float.
load_factor(set) == [num |-> set.numElements \div bucket_count(set), den |-> 1]

min_buckets_required(set, num) == FloatDivToSize(num, set.maxLoadFactor)

Iterator(itVectorEnd, itVector, itList) ==
  [itVectorEnd |-> itVectorEnd, itVector |-> itVector, itList |-> itList]

end(set) ==
  Iterator(vector_end(set.buckets), vector_end(set.buckets), list_end(set.buckets[0]))

RECURSIVE BeginFrom(_, _)
BeginFrom(set, itBucket) ==
  IF itBucket = vector_end(set.buckets) THEN end(set)
  ELSE IF ~list_empty(set.buckets[itBucket])
       THEN Iterator(vector_end(set.buckets), itBucket, list_begin(set.buckets[itBucket]))
       ELSE BeginFrom(set, itBucket + 1)

begin(set) == BeginFrom(set, vector_begin(set.buckets))

\* local_iterator(itList)
LocalIterator(itList) == [itList |-> itList]

\* Mutant of begin_bucket: the iterator starts at the chain's last node.
begin_bucket_AtTail(set, iBucket) == LocalIterator(set.buckets[iBucket].pTail)

\* begin(size_t iBucket) and end(size_t iBucket)
begin_bucket(set, iBucket) == LocalIterator(list_begin(set.buckets[iBucket]))

end_bucket(set, iBucket) == LocalIterator(list_end(set.buckets[iBucket]))

\* local_iterator::operator==
LocalIteratorEq(lhs, rhs) == lhs.itList = rhs.itList

\* local_iterator::operator++ and operator* on an iterator into bucket iBucket
\* of `set'.
LocalIteratorIncrement(set, iBucket, it) ==
  LocalIterator(ListNext(set.buckets[iBucket], it.itList))

LocalIteratorDeref(set, iBucket, it) == ListDeref(set.buckets[iBucket], it.itList)

\* iterator::operator==
IteratorEq(lhs, rhs) ==
  /\ lhs.itVector = rhs.itVector
  /\ lhs.itVectorEnd = rhs.itVectorEnd
  /\ lhs.itList = rhs.itList

\* iterator::operator*
IteratorDeref(set, it) == ListDeref(set.buckets[it.itVector], it.itList)

\* Mutant of SkipEmpty: the loop's test for an empty bucket is lost, so it
\* runs to the end of the table.
SkipEmpty_ToEnd(set, itVector, itVectorEnd) == itVectorEnd

\* operator++, step 3: the next non-empty bucket, or the end of the table.
RECURSIVE SkipEmpty(_, _, _)
SkipEmpty(set, itVector, itVectorEnd) ==
  IF itVector # itVectorEnd /\ list_empty(set.buckets[itVector])
  THEN SkipEmpty(set, itVector + 1, itVectorEnd)
  ELSE itVector

\* Mutant of IteratorIncrement: the chain position is advanced only when the
\* iterator stays in its bucket.
IteratorIncrement_KeepsChainPos(set, it) ==
  IF it.itVector = it.itVectorEnd THEN it
  ELSE
    LET itList1 == ListNext(set.buckets[it.itVector], it.itList)
    IN  IF itList1 # list_end(set.buckets[it.itVector])
        THEN [it EXCEPT !.itList = itList1]
        ELSE
          LET itVector1 == SkipEmpty(set, it.itVector + 1, it.itVectorEnd)
          IN  IF itVector1 # it.itVectorEnd
              THEN [it EXCEPT !.itVector = itVector1,
                              !.itList = list_begin(set.buckets[itVector1])]
              ELSE [it EXCEPT !.itVector = itVector1]

\* iterator::operator++ on an iterator into `set'.
IteratorIncrement(set, it) ==
  IF it.itVector = it.itVectorEnd THEN it
  ELSE
    LET itList1 == ListNext(set.buckets[it.itVector], it.itList)
    IN  IF itList1 # list_end(set.buckets[it.itVector])
        THEN [it EXCEPT !.itList = itList1]
        ELSE
          LET itVector1 == SkipEmpty(set, it.itVector + 1, it.itVectorEnd)
          IN  IF itVector1 # it.itVectorEnd
              THEN [it EXCEPT !.itVector = itVector1,
                              !.itList = list_begin(set.buckets[itVector1])]
              ELSE [it EXCEPT !.itVector = itVector1, !.itList = itList1]

find(set, t) ==
  LET iBucket == bucket(set, t)
      itList  == list_find(set.buckets[iBucket], t)
  IN  IF itList # list_end(set.buckets[iBucket])
      THEN Iterator(vector_end(set.buckets), iBucket, itList)
      ELSE end(set)

\* Moving every element of buckets itBucket.. into newBuckets.
RECURSIVE RehashChain(_, _, _, _)
RehashChain(newBuckets, l, itList, numBuckets) ==
  IF itList = list_end(l) THEN newBuckets
  ELSE
    LET iBucket == Hash(ListDeref(l, itList)) % numBuckets
    IN  RehashChain(
          [newBuckets EXCEPT ![iBucket] = list_push_back(@, ListDeref(l, itList))],
          l, ListNext(l, itList), numBuckets)

RECURSIVE RehashBuckets(_, _, _, _)
RehashBuckets(newBuckets, buckets, itBucket, numBuckets) ==
  IF itBucket = vector_end(buckets) THEN newBuckets
  ELSE RehashBuckets(
         RehashChain(newBuckets, buckets[itBucket], list_begin(buckets[itBucket]), numBuckets),
         buckets, itBucket + 1, numBuckets)

\* Mutant of rehash: a smaller positive numBuckets rebuilds the table too.
rehash_Shrinks(set, numBuckets) ==
  IF numBuckets = 0 \/ numBuckets = bucket_count(set) THEN set
  ELSE [set EXCEPT !.buckets =
          RehashBuckets(vector_new(numBuckets), set.buckets,
                        vector_begin(set.buckets), numBuckets)]

\* Mutant of rehash: the table is resized and the chains stay where they were.
rehash_Resize(set, numBuckets) ==
  IF numBuckets <= bucket_count(set) THEN set
  ELSE [set EXCEPT !.buckets =
          [i \in 0 .. (numBuckets - 1) |->
             IF i \in DOMAIN set.buckets THEN set.buckets[i] ELSE EmptyList]]

rehash(set, numBuckets) ==
  IF numBuckets <= bucket_count(set) THEN set
  ELSE [set EXCEPT !.buckets =
          RehashBuckets(vector_new(numBuckets), set.buckets,
                        vector_begin(set.buckets), numBuckets)]

reserve(set, num) == rehash(set, FloatDivToSize(num, set.maxLoadFactor))

\* Mutant of InsertGrow: the bucket index found before the growth is kept.
InsertGrow_StaleBucket(set, iBucket, t) ==
  IF min_buckets_required(set, set.numElements + 1) > bucket_count(set)
  THEN [set |-> reserve(set, set.numElements * 2), iBucket |-> iBucket]
  ELSE [set |-> set, iBucket |-> iBucket]

\* Mutant of InsertGrow: the growth reserves for numElements, not for twice
\* as many.
InsertGrow_NoDoubling(set, iBucket, t) ==
  IF min_buckets_required(set, set.numElements + 1) > bucket_count(set)
  THEN LET grown == reserve(set, set.numElements)
       IN  [set |-> grown, iBucket |-> bucket(grown, t)]
  ELSE [set |-> set, iBucket |-> iBucket]

\* insert, step 3: grow when one more element needs more buckets, and find the
\* bucket again. The set and the bucket index afterwards.
InsertGrow(set, iBucket, t) ==
  IF min_buckets_required(set, set.numElements + 1) > bucket_count(set)
  THEN LET grown == reserve(set, set.numElements * 2)
       IN  [set |-> grown, iBucket |-> bucket(grown, t)]
  ELSE [set |-> set, iBucket |-> iBucket]

\* Mutant of insert: the iterator returned is at the head of the chain
\* rather than at the node just pushed.
insert_ReturnsChainHead(set, t) ==
  LET iBucket0 == bucket(set, t)
      it0      == list_find(set.buckets[iBucket0], t)
  IN  IF it0 # list_end(set.buckets[iBucket0])
      THEN [set |-> set,
            first |-> Iterator(vector_end(set.buckets), iBucket0, it0),
            second |-> FALSE]
      ELSE
        LET g       == InsertGrow(set, iBucket0, t)
            set1    == g.set
            iBucket == g.iBucket
        IN  IF list_find(set1.buckets[iBucket], t) # list_end(set1.buckets[iBucket])
            THEN [set |-> set1, first |-> end(set1), second |-> FALSE]
            ELSE
              LET set2 == [set1 EXCEPT !.buckets[iBucket] = list_push_back(@, t),
                                       !.numElements = @ + 1]
              IN  [set |-> set2,
                   first |-> Iterator(vector_end(set2.buckets), iBucket,
                                      list_begin(set2.buckets[iBucket])),
                   second |-> TRUE]

\* Mutant of insert: step 3 (the growth) runs before step 2 (the scan for a
\* stored t).
insert_GrowsFirst(set, t) ==
  LET g       == InsertGrow(set, bucket(set, t), t)
      set1    == g.set
      iBucket == g.iBucket
      it0     == list_find(set1.buckets[iBucket], t)
  IN  IF it0 # list_end(set1.buckets[iBucket])
      THEN [set |-> set1,
            first |-> Iterator(vector_end(set1.buckets), iBucket, it0),
            second |-> FALSE]
      ELSE
        LET set2 == [set1 EXCEPT !.buckets[iBucket] = list_push_back(@, t),
                                 !.numElements = @ + 1]
        IN  [set |-> set2,
             first |-> Iterator(vector_end(set2.buckets), iBucket,
                                list_find(set2.buckets[iBucket], t)),
             second |-> TRUE]

\* insert(t): the set afterwards and the pair returned.
insert(set, t) ==
  LET iBucket0 == bucket(set, t)
      it0      == list_find(set.buckets[iBucket0], t)
  IN  IF it0 # list_end(set.buckets[iBucket0])
      THEN [set |-> set,
            first |-> Iterator(vector_end(set.buckets), iBucket0, it0),
            second |-> FALSE]
      ELSE
        LET g       == InsertGrow(set, iBucket0, t)
            set1    == g.set
            iBucket == g.iBucket
        IN  IF list_find(set1.buckets[iBucket], t) # list_end(set1.buckets[iBucket])
            THEN [set |-> set1, first |-> end(set1), second |-> FALSE]
            ELSE
              LET set2 == [set1 EXCEPT !.buckets[iBucket] = list_push_back(@, t),
                                       !.numElements = @ + 1]
              IN  [set |-> set2,
                   first |-> Iterator(vector_end(set2.buckets), iBucket,
                                      list_find(set2.buckets[iBucket], t)),
                   second |-> TRUE]

\* Mutant of erase: numElements is not decremented.
erase_KeepsCount(set, t) ==
  LET itErase == find(set, t)
  IN  IF IteratorEq(itErase, end(set))
      THEN [set |-> set, it |-> itErase]
      ELSE
        LET itReturn == IteratorIncrement(set, itErase)
            e        == list_erase(set.buckets[itErase.itVector], itErase.itList)
        IN  [set |-> [set EXCEPT !.buckets[itErase.itVector] = e.list],
             it  |-> itReturn]

\* Mutant of erase: the iterator returned is that of list::erase on the
\* chain, never carried on to a later bucket.
erase_StaysInBucket(set, t) ==
  LET itErase == find(set, t)
  IN  IF IteratorEq(itErase, end(set))
      THEN [set |-> set, it |-> itErase]
      ELSE
        LET e == list_erase(set.buckets[itErase.itVector], itErase.itList)
        IN  [set |-> [set EXCEPT !.buckets[itErase.itVector] = e.list,
                                 !.numElements = @ - 1],
             it  |-> Iterator(itErase.itVectorEnd, itErase.itVector, e.it)]

\* erase(t): the set afterwards and the iterator returned.
erase(set, t) ==
  LET itErase == find(set, t)
  IN  IF IteratorEq(itErase, end(set))
      THEN [set |-> set, it |-> itErase]
      ELSE
        LET itReturn == IteratorIncrement(set, itErase)
            e        == list_erase(set.buckets[itErase.itVector], itErase.itList)
        IN  [set |-> [set EXCEPT !.buckets[itErase.itVector] = e.list,
                                 !.numElements = @ - 1],
             it  |-> itReturn]

\* buckets[index]: the index a call subscripts the bucket table with and the
\* size the table has then.
Subscript(buckets, index) == [index |-> index, size |-> vector_size(buckets)]

\* The subscripts end() makes: buckets[0].
end_Subscripts(set) == { Subscript(set.buckets, 0) }

\* The subscripts begin() makes: none in its loop, which goes by iterator
\* from buckets.begin() to buckets.end(), and those of end() when the loop
\* finds every bucket empty.
begin_Subscripts(set) ==
  IF IteratorEq(begin(set), end(set)) THEN end_Subscripts(set) ELSE {}

\* The subscripts find(t) makes: buckets[iBucket] and, when it returns end(),
\* those of end(). Beyond a subscript outside the table nothing is defined.
find_Subscripts(set, t) ==
  LET iBucket == bucket(set, t)
  IN  IF iBucket \notin DOMAIN set.buckets THEN { Subscript(set.buckets, iBucket) }
      ELSE IF list_find(set.buckets[iBucket], t) # list_end(set.buckets[iBucket])
      THEN { Subscript(set.buckets, iBucket) }
      ELSE { Subscript(set.buckets, iBucket) } \cup end_Subscripts(set)

\* The subscripts insert(t) makes: buckets[iBucket] in step 2, and again in
\* steps 4 and 5 with the index and the table that step 3 leaves, and those
\* of end() when step 4 returns it.
insert_Subscripts(set, t) ==
  LET iBucket0 == bucket(set, t)
  IN  IF iBucket0 \notin DOMAIN set.buckets THEN { Subscript(set.buckets, iBucket0) }
      ELSE IF list_find(set.buckets[iBucket0], t) # list_end(set.buckets[iBucket0])
      THEN { Subscript(set.buckets, iBucket0) }
      ELSE
        LET g == InsertGrow(set, iBucket0, t)
        IN  { Subscript(set.buckets, iBucket0), Subscript(g.set.buckets, g.iBucket) }
            \cup IF g.iBucket \in DOMAIN g.set.buckets
                    /\ list_find(g.set.buckets[g.iBucket], t) # list_end(g.set.buckets[g.iBucket])
                 THEN end_Subscripts(g.set)
                 ELSE {}

\* The subscripts erase(t) makes: those of find(t) and of end(); the erasure
\* itself goes by the iterator found.
erase_Subscripts(set, t) ==
  IF \A sub \in find_Subscripts(set, t) : sub.index < sub.size
  THEN find_Subscripts(set, t) \cup end_Subscripts(set)
  ELSE find_Subscripts(set, t)

\* Mutant of clear: numElements is not reset.
clear_KeepsCount(set) ==
  [set EXCEPT !.buckets = [i \in DOMAIN set.buckets |-> list_clear(set.buckets[i])]]

\* Mutant of clear: the loop stops after the first bucket.
clear_FirstBucketOnly(set) ==
  [set EXCEPT !.buckets = [i \in DOMAIN set.buckets |->
                             IF i = 0 THEN list_clear(set.buckets[i]) ELSE set.buckets[i]],
              !.numElements = 0]

clear(set) ==
  [set EXCEPT !.buckets = [i \in DOMAIN set.buckets |-> list_clear(set.buckets[i])],
              !.numElements = 0]

\* insert(const std::initializer_list<T>& il): insert of each entry, first to
\* last.
RECURSIVE insert_il(_, _)
insert_il(set, il) ==
  IF il = <<>> THEN set ELSE insert_il(insert(set, Head(il)).set, Tail(il))

\* Mutant of assign_il: the set is cleared before the list is inserted.
assign_il_ClearsFirst(set, il) == insert_il(clear(set), il)

\* operator=(const std::initializer_list<T>& il)
assign_il(set, il) == insert_il(set, il)

\* Mutant of copy_assign: maxLoadFactor is not taken from rhs.
copy_assign_KeepsLoadFactor(lhs, rhs) ==
  [numElements   |-> rhs.numElements,
   maxLoadFactor |-> lhs.maxLoadFactor,
   buckets       |-> vector_copy(rhs.buckets)]

\* operator=(const unordered_set& rhs), and unordered_set(const unordered_set&
\* rhs), which is that assignment to a set under construction: nothing of the
\* receiver is read.
copy_assign(lhs, rhs) ==
  [numElements   |-> rhs.numElements,
   maxLoadFactor |-> rhs.maxLoadFactor,
   buckets       |-> vector_copy(rhs.buckets)]

\* Mutant of move_assign: the source is rehashed to one bucket, not to 8.
move_assign_OneBucket(lhs, rhs) ==
  [lhs |-> [numElements   |-> rhs.numElements,
            maxLoadFactor |-> rhs.maxLoadFactor,
            buckets       |-> rhs.buckets],
   rhs |-> rehash([numElements |-> 0, maxLoadFactor |-> One, buckets |-> vector_moved_from],
                  1)]

\* operator=(unordered_set&& rhs): the receiver and the source afterwards.
move_assign(lhs, rhs) ==
  [lhs |-> [numElements   |-> rhs.numElements,
            maxLoadFactor |-> rhs.maxLoadFactor,
            buckets       |-> rhs.buckets],
   rhs |-> rehash([numElements |-> 0, maxLoadFactor |-> One, buckets |-> vector_moved_from],
                  DefaultBuckets)]

-----------------------------------------------------------------------------
(* The reference set: a mathematical set of values under EqPred *)

RefContains(r, t) == \E e \in r : EqPred(e, t)

RefInsert(r, t) == IF RefContains(r, t) THEN r ELSE r \cup {t}

RefErase(r, t) == {e \in r : ~EqPred(e, t)}

-----------------------------------------------------------------------------
(* The calls a program makes on its sets, one action each *)

Insert(x, t) ==
  /\ s' = [s EXCEPT ![x] = insert(s[x], t).set]
  /\ ref' = [ref EXCEPT ![x] = RefInsert(@, t)]
  /\ UNCHANGED <<cfg, lst, lret>>

Erase(x, t) ==
  /\ s' = [s EXCEPT ![x] = erase(s[x], t).set]
  /\ ref' = [ref EXCEPT ![x] = RefErase(@, t)]
  /\ UNCHANGED <<cfg, lst, lret>>

Find(x, t) ==
  /\ UNCHANGED <<cfg, s, ref, lst, lret>>

Clear(x) ==
  /\ s' = [s EXCEPT ![x] = clear(@)]
  /\ ref' = [ref EXCEPT ![x] = {}]
  /\ UNCHANGED <<cfg, lst, lret>>

Rehash(x, numBuckets) ==
  /\ s' = [s EXCEPT ![x] = rehash(@, numBuckets)]
  /\ UNCHANGED <<cfg, ref, lst, lret>>

Reserve(x, num) ==
  /\ s' = [s EXCEPT ![x] = reserve(@, num)]
  /\ UNCHANGED <<cfg, ref, lst, lret>>

MaxLoadFactor(x, m) ==
  /\ s' = [s EXCEPT ![x].maxLoadFactor = m]
  /\ UNCHANGED <<cfg, ref, lst, lret>>

\* x = y
CopyAssign(x, y) ==
  /\ s' = [s EXCEPT ![x] = copy_assign(s[x], s[y])]
  /\ ref' = [ref EXCEPT ![x] = ref[y]]
  /\ UNCHANGED <<cfg, lst, lret>>

\* x = std::move(y)
MoveAssign(x, y) ==
  /\ LET m == move_assign(s[x], s[y])
     IN  s' = [s EXCEPT ![x] = m.lhs, ![y] = m.rhs]
  /\ ref' = [ref EXCEPT ![x] = ref[y], ![y] = {}]
  /\ UNCHANGED <<cfg, lst, lret>>

\* x.swap(y)
Swap(x, y) ==
  /\ s' = [s EXCEPT ![x] = s[y], ![y] = s[x]]
  /\ ref' = [ref EXCEPT ![x] = ref[y], ![y] = ref[x]]
  /\ UNCHANGED <<cfg, lst, lret>>

-----------------------------------------------------------------------------
(* A program with one set, which keeps what each call returns *)

\* The `it' of a call that returns no iterator.
NoIterator == Iterator(-1, -1, nullptr)

\* size() and bucket_count() of the receiver, read before the call.
Before(x) == [size |-> size(s[x]), bucket_count |-> bucket_count(s[x])]

\* What the program keeps of a call: its name and receiver, the argument and
\* the value returned of a call that returns one (insert, erase, find), and
\* what size() and bucket_count() were before.
Ret(op, self, arg, it, second) ==
  [op |-> op, self |-> self, arg |-> arg, it |-> it, second |-> second,
   before |-> Before(self)]

Init ==
  /\ cfg \in {"std", "custom"}
  /\ \E numBuckets \in 1 .. MaxBuckets :
       s = [x \in Names |-> IF x = "a" THEN unordered_set(numBuckets)
                                       ELSE unordered_set(1)]
  /\ ref = [x \in Names |-> {}]
  /\ ret = Ret("construct", "a", 0, NoIterator, FALSE)
  /\ lst = EmptyList
  /\ lret = NoListCall

Next ==
  \/ \E t \in Values :
       /\ Insert("a", t)
       /\ LET r == insert(s["a"], t)
          IN  ret' = Ret("insert", "a", t, r.first, r.second)
  \/ \E t \in Values :
       /\ Erase("a", t)
       /\ ret' = Ret("erase", "a", t, erase(s["a"], t).it, FALSE)
  \/ \E t \in Values :
       /\ Find("a", t)
       /\ ret' = Ret("find", "a", t, find(s["a"], t), FALSE)
  \/ /\ Clear("a")
     /\ ret' = Ret("clear", "a", 0, NoIterator, FALSE)
  \/ \E numBuckets \in 1 .. (MaxBuckets + 1) :
       /\ Rehash("a", numBuckets)
       /\ ret' = Ret("rehash", "a", 0, NoIterator, FALSE)
  \/ \E num \in 0 .. MaxReserve :
       /\ Reserve("a", num)
       /\ ret' = Ret("reserve", "a", 0, NoIterator, FALSE)
  \/ \E m \in LoadFactors :
       /\ MaxLoadFactor("a", m)
       /\ ret' = Ret("max_load_factor", "a", 0, NoIterator, FALSE)

Spec == Init /\ [][Next]_vars

-----------------------------------------------------------------------------
(* A program with one set that never calls max_load_factor(float): the max *)
(* load factor stays at the constructor's 1.0                              *)

NextDefault ==
  \/ \E t \in Values :
       /\ Insert("a", t)
       /\ LET r == insert(s["a"], t)
          IN  ret' = Ret("insert", "a", t, r.first, r.second)
  \/ \E t \in Values :
       /\ Erase("a", t)
       /\ ret' = Ret("erase", "a", t, erase(s["a"], t).it, FALSE)
  \/ /\ Clear("a")
     /\ ret' = Ret("clear", "a", 0, NoIterator, FALSE)
  \/ \E numBuckets \in 1 .. (MaxBuckets + 1) :
       /\ Rehash("a", numBuckets)
       /\ ret' = Ret("rehash", "a", 0, NoIterator, FALSE)
  \/ \E num \in 0 .. MaxReserve :
       /\ Reserve("a", num)
       /\ ret' = Ret("reserve", "a", 0, NoIterator, FALSE)

SpecDefault == Init /\ [][NextDefault]_vars

-----------------------------------------------------------------------------
(* A program with two sets, which keeps what an insert, a copy, a move or a *)
(* swap returns and discards what the other calls return                   *)

InitPair ==
  /\ cfg = "std"
  /\ s = [x \in Names |-> IF x = "a" THEN unordered_set(1) ELSE unordered_set_default]
  /\ ref = [x \in Names |-> {}]
  /\ ret = Ret("construct", "a", 0, NoIterator, FALSE)
  /\ lst = EmptyList
  /\ lret = NoListCall

Discarded ==
  [op |-> "call", self |-> "a", arg |-> 0, it |-> NoIterator, second |-> FALSE,
   before |-> [size |-> 0, bucket_count |-> 0]]

NextPair ==
  \/ \E x \in Names, t \in PairValues :
       /\ Insert(x, t)
       /\ LET r == insert(s[x], t)
          IN  ret' = Ret("insert", x, t, r.first, r.second)
  \/ \E x \in Names, t \in PairValues : Erase(x, t) /\ ret' = Discarded
  \/ \E x \in Names : Clear(x) /\ ret' = Discarded
  \/ \E x \in Names, numBuckets \in 1 .. PairMaxVal : Rehash(x, numBuckets) /\ ret' = Discarded
  \/ \E x \in Names, num \in 0 .. PairMaxVal : Reserve(x, num) /\ ret' = Discarded
  \/ \E x \in Names, m \in PairLoadFactors : MaxLoadFactor(x, m) /\ ret' = Discarded
  \/ \E x \in Names : \E y \in Names \ {x} :
       CopyAssign(x, y) /\ ret' = Ret("copy_assign", x, y, NoIterator, FALSE)
  \/ \E x \in Names : \E y \in Names \ {x} :
       MoveAssign(x, y) /\ ret' = Ret("move_assign", x, y, NoIterator, FALSE)
  \/ \E x \in Names : \E y \in Names \ {x} :
       Swap(x, y) /\ ret' = Ret("swap", x, y, NoIterator, FALSE)

SpecPair == InitPair /\ [][NextPair]_vars

-----------------------------------------------------------------------------
(* A program with one set that may be constructed with no bucket.  A call  *)
(* that subscripts the table outside it has undefined behaviour: the       *)
(* program keeps that it made such a call and is followed no further.      *)

InRange(subs) == \A sub \in subs : sub.index < sub.size

Undefined == [Discarded EXCEPT !.op = "undefined"]

InitZero ==
  /\ cfg = "std"
  /\ \E numBuckets \in 0 .. MaxBuckets :
       s = [x \in Names |-> IF x = "a" THEN unordered_set(numBuckets)
                                       ELSE unordered_set(1)]
  /\ ref = [x \in Names |-> {}]
  /\ ret = Ret("construct", "a", 0, NoIterator, FALSE)
  /\ lst = EmptyList
  /\ lret = NoListCall

\* The program has made no call with undefined behaviour.
Running == ret # Undefined

UndefinedCall ==
  /\ Running
  /\ \E t \in Values :
       \/ ~InRange(insert_Subscripts(s["a"], t))
       \/ ~InRange(erase_Subscripts(s["a"], t))
       \/ ~InRange(find_Subscripts(s["a"], t))
  /\ ret' = Undefined
  /\ UNCHANGED <<cfg, s, ref, lst, lret>>

NextZero ==
  \/ \E t \in Values :
       /\ Running
       /\ InRange(insert_Subscripts(s["a"], t))
       /\ Insert("a", t)
       /\ LET r == insert(s["a"], t)
          IN  ret' = Ret("insert", "a", t, r.first, r.second)
  \/ \E t \in Values :
       /\ Running
       /\ InRange(erase_Subscripts(s["a"], t))
       /\ Erase("a", t)
       /\ ret' = Ret("erase", "a", t, erase(s["a"], t).it, FALSE)
  \/ \E t \in Values :
       /\ Running
       /\ InRange(find_Subscripts(s["a"], t))
       /\ Find("a", t)
       /\ ret' = Ret("find", "a", t, find(s["a"], t), FALSE)
  \/ UndefinedCall
  \/ /\ Running
     /\ Clear("a")
     /\ ret' = Ret("clear", "a", 0, NoIterator, FALSE)
  \/ \E numBuckets \in 0 .. (MaxBuckets + 1) :
       /\ Running
       /\ Rehash("a", numBuckets)
       /\ ret' = Ret("rehash", "a", 0, NoIterator, FALSE)
  \/ \E num \in 0 .. MaxReserve :
       /\ Running
       /\ Reserve("a", num)
       /\ ret' = Ret("reserve", "a", 0, NoIterator, FALSE)

SpecZero == InitZero /\ [][NextZero]_vars

-----------------------------------------------------------------------------
(* A program with one set that assigns initializer lists to it *)

\* The initializer lists: at most PairMaxVal entries, each of PairValues.
InitializerLists == UNION { [1 .. n -> PairValues] : n \in 0 .. PairMaxVal }

\* x = il
AssignIl(x, il) ==
  /\ s' = [s EXCEPT ![x] = assign_il(@, il)]
  /\ UNCHANGED <<cfg, ref, lst, lret>>

NextIl ==
  \/ \E il \in InitializerLists :
       /\ AssignIl("a", il)
       /\ ret' = Ret("assign_il", "a", il, NoIterator, FALSE)
  \/ \E t \in PairValues :
       /\ Erase("a", t)
       /\ ret' = Ret("erase", "a", 0, NoIterator, FALSE)
  \/ /\ Clear("a")
     /\ ret' = Ret("clear", "a", 0, NoIterator, FALSE)
  \/ \E m \in LoadFactors :
       /\ MaxLoadFactor("a", m)
       /\ ret' = Ret("max_load_factor", "a", 0, NoIterator, FALSE)

SpecIl == Init /\ [][NextIl]_vars

-----------------------------------------------------------------------------
(* A program with one list, which keeps what each call returns.  The list  *)
(* it copies from, moves from or swaps with is constructed for the call;   *)
(* `other' is that list after the call.                                    *)

ListRet(op, it, data, itRet, dataRet, threw, other) ==
  [op |-> op, it |-> it, data |-> data, itRet |-> itRet, dataRet |-> dataRet,
   threw |-> threw, other |-> other, before |-> list_size(lst)]

\* The iterators the program holds on its list: one per node, and end().
ListPositions == DOMAIN lst.node \cup {list_end(lst)}

ListPushFront(data) ==
  /\ list_size(lst) < MaxListLen
  /\ lst' = list_push_front(lst, data)
  /\ lret' = ListRet("push_front", nullptr, data, nullptr, -1, FALSE, EmptyList)
  /\ UNCHANGED <<cfg, s, ref, ret>>

ListPushBack(data) ==
  /\ list_size(lst) < MaxListLen
  /\ lst' = list_push_back(lst, data)
  /\ lret' = ListRet("push_back", nullptr, data, nullptr, -1, FALSE, EmptyList)
  /\ UNCHANGED <<cfg, s, ref, ret>>

ListInsert(it, data) ==
  /\ list_size(lst) < MaxListLen
  /\ lst' = list_insert(lst, it, data).list
  /\ lret' = ListRet("insert", it, data, list_insert(lst, it, data).it, -1, FALSE, EmptyList)
  /\ UNCHANGED <<cfg, s, ref, ret>>

ListErase(it) ==
  /\ lst' = list_erase(lst, it).list
  /\ lret' = ListRet("erase", it, -1, list_erase(lst, it).it, -1, FALSE, EmptyList)
  /\ UNCHANGED <<cfg, s, ref, ret>>

ListPopFront ==
  /\ lst' = list_pop_front(lst)
  /\ lret' = ListRet("pop_front", nullptr, -1, nullptr, -1, FALSE, EmptyList)
  /\ UNCHANGED <<cfg, s, ref, ret>>

ListPopBack ==
  /\ lst' = list_pop_back(lst)
  /\ lret' = ListRet("pop_back", nullptr, -1, nullptr, -1, FALSE, EmptyList)
  /\ UNCHANGED <<cfg, s, ref, ret>>

ListClear ==
  /\ lst' = list_clear(lst)
  /\ lret' = ListRet("clear", nullptr, -1, nullptr, -1, FALSE, EmptyList)
  /\ UNCHANGED <<cfg, s, ref, ret>>

ListFront ==
  /\ lret' = ListRet("front", nullptr, -1, nullptr, list_front(lst).data,
                     list_front(lst).threw, EmptyList)
  /\ UNCHANGED <<cfg, s, ref, ret, lst>>

ListBack ==
  /\ lret' = ListRet("back", nullptr, -1, nullptr, list_back(lst).data,
                     list_back(lst).threw, EmptyList)
  /\ UNCHANGED <<cfg, s, ref, ret, lst>>

\* lst = rhs
ListCopyAssign(rhs) ==
  /\ lst' = list_assign(lst, rhs)
  /\ lret' = ListRet("copy_assign", nullptr, -1, nullptr, -1, FALSE, rhs)
  /\ UNCHANGED <<cfg, s, ref, ret>>

\* lst = std::move(rhs)
ListMoveAssign(rhs) ==
  /\ lst' = list_move_assign(lst, rhs).lhs
  /\ lret' = ListRet("move_assign", nullptr, -1, nullptr, -1, FALSE,
                     list_move_assign(lst, rhs).rhs)
  /\ UNCHANGED <<cfg, s, ref, ret>>

\* lst.swap(rhs)
ListSwap(rhs) ==
  /\ lst' = list_swap(lst, rhs).lhs
  /\ lret' = ListRet("swap", nullptr, -1, nullptr, -1, FALSE, list_swap(lst, rhs).rhs)
  /\ UNCHANGED <<cfg, s, ref, ret>>

InitList ==
  /\ cfg = "std"
  /\ s = [x \in Names |-> unordered_set(1)]
  /\ ref = [x \in Names |-> {}]
  /\ ret = Discarded
  /\ lst = EmptyList
  /\ lret = NoListCall

NextList ==
  \/ \E data \in ListValues : ListPushFront(data)
  \/ \E data \in ListValues : ListPushBack(data)
  \/ \E it \in ListPositions, data \in ListValues : ListInsert(it, data)
  \/ \E it \in ListPositions : ListErase(it)
  \/ ListPopFront
  \/ ListPopBack
  \/ ListClear
  \/ ListFront
  \/ ListBack
  \/ \E seq \in ListSeqs : ListCopyAssign(list_range(EmptyList, seq))
  \/ \E num \in 0 .. MaxListLen, data \in ListValues :
       ListMoveAssign(list_fill(EmptyList, num, data))
  \/ \E num \in 0 .. MaxListLen, data \in ListValues :
       ListSwap(list_fill(EmptyList, num, data))

SpecList == InitList /\ [][NextList]_vars

-----------------------------------------------------------------------------
(* What the properties below speak of *)

\* The nodes of a set: <<bucket index, node address>>.
Nodes(set) ==
  UNION { { <<i, p>> : p \in DOMAIN set.buckets[i].node } : i \in DOMAIN set.buckets }

NodeData(set, n) == set.buckets[n[1]].node[n[2]].data

\* The values stored in a set.
Elements(set) == { NodeData(set, n) : n \in Nodes(set) }

\* The values from node p to the end of a list's chain, in chain order.
RECURSIVE ChainFrom(_, _)
ChainFrom(l, p) ==
  IF p = nullptr THEN <<>> ELSE <<l.node[p].data>> \o ChainFrom(l, l.node[p].pNext)

Chain(l) == ChainFrom(l, l.pHead)

\* The values of bucket i, in chain order.
BucketChain(set, i) == Chain(set.buckets[i])

\* The iterators a traversal that starts at `it' stops at before it reaches
\* end(), in order; a traversal still going after `fuel' steps ends in
\* NoIterator.
RECURSIVE TraverseFrom(_, _, _)
TraverseFrom(set, it, fuel) ==
  IF IteratorEq(it, end(set)) THEN <<>>
  ELSE IF fuel = 0 THEN <<NoIterator>>
  ELSE <<it>> \o TraverseFrom(set, IteratorIncrement(set, it), fuel - 1)

Traversal(set) == TraverseFrom(set, begin(set), Cardinality(Nodes(set)) + 1)

\* The values a traversal from `it' visits, in order.
VisitedFrom(set, it) ==
  LET tr == TraverseFrom(set, it, Cardinality(Nodes(set)) + 1)
  IN  [k \in 1 .. Len(tr) |-> IF tr[k] = NoIterator THEN -1 ELSE IteratorDeref(set, tr[k])]

RECURSIVE SumBucketSizes(_, _)
SumBucketSizes(set, i) ==
  IF i = bucket_count(set) THEN 0 ELSE bucket_size(set, i) + SumBucketSizes(set, i + 1)

\* An iterator of `set' positioned at a stored element.
AtElement(set, it) ==
  /\ it.itVectorEnd = vector_end(set.buckets)
  /\ it.itVector \in DOMAIN set.buckets
  /\ it.itList \in DOMAIN set.buckets[it.itVector].node

-----------------------------------------------------------------------------
(* C1 *)

\* C1 (as claimed): no set ever holds two elements that the configured
\* equality predicate EqPred considers equal, and an insert of a value that is
\* EqPred-equal to a stored one returns second = FALSE with an iterator at the
\* element that was already there (so an insert that returned TRUE left no
\* other element EqPred-equal to its argument).
C1_UniqueUnderEqPred ==
  /\ \A m, n \in Nodes(s["a"]) :
       m # n => ~EqPred(NodeData(s["a"], m), NodeData(s["a"], n))
  /\ ret.op = "insert" =>
       /\ AtElement(s["a"], ret.it)
       /\ EqPred(IteratorDeref(s["a"], ret.it), ret.arg)
       /\ ret.second = (size(s["a"]) = ret.before.size + 1)

-----------------------------------------------------------------------------
(* C2 *)

\* C2: size() equals the number of elements a begin()-to-end() traversal
\* visits, which equals the sum of bucket_size(i) over all buckets.
C2_CountConsistency ==
  /\ size(s["a"]) = Len(Traversal(s["a"]))
  /\ Len(Traversal(s["a"])) = SumBucketSizes(s["a"], 0)
  /\ \A k \in 1 .. Len(Traversal(s["a"])) : Traversal(s["a"])[k] # NoIterator

\* An erase has just removed an element of a set that an insert had grown,
\* and two elements remain.
C2_Witness ==
  /\ ret.op = "erase"
  /\ ret.before.size = 3
  /\ size(s["a"]) = 2
  /\ bucket_count(s["a"]) > MaxBuckets + 1

-----------------------------------------------------------------------------
(* C3 *)

\* find(v) on `set' succeeds: it returns an iterator at a stored element == v.
Findable(set, v) ==
  /\ ~IteratorEq(find(set, v), end(set))
  /\ AtElement(set, find(set, v))
  /\ IteratorDeref(set, find(set, v)) = v

\* C3: a rehash(n) with n > bucket_count() leaves bucket_count() = n, size()
\* as it was and exactly the former elements stored and findable, each in
\* bucket hash(element) mod n.
C3_RehashPreservesMembership ==
  [][\A n \in 1 .. (MaxBuckets + 1) :
       (ret'.op = "rehash" /\ n > bucket_count(s["a"]) /\ Rehash("a", n))
       => LET old == s["a"]
              new == s'["a"]
          IN  /\ bucket_count(new) = n
              /\ size(new) = size(old)
              /\ Elements(new) = Elements(old)
              /\ Cardinality(Nodes(new)) = Cardinality(Nodes(old))
              /\ \A v \in Values :
                   IF v \in Elements(old)
                   THEN Findable(new, v)
                   ELSE IteratorEq(find(new, v), end(new))
              /\ \A m \in Nodes(new) : Hash(NodeData(new, m)) % n = m[1]
    ]_vars

\* A rehash has just grown the table of a set of three elements.
C3_Witness ==
  /\ ret.op = "rehash"
  /\ bucket_count(s["a"]) > ret.before.bucket_count
  /\ size(s["a"]) = 3

-----------------------------------------------------------------------------
(* C4 *)

\* C4: incrementing from begin() reaches end() after exactly size()
\* increments, stopping at every stored node exactly once and at nothing else.
C4_IteratorCompleteness ==
  LET tr == Traversal(s["a"])
  IN  /\ Len(tr) = size(s["a"])
      /\ \A k \in 1 .. Len(tr) : tr[k] # NoIterator /\ AtElement(s["a"], tr[k])
      /\ { <<tr[k].itVector, tr[k].itList>> : k \in 1 .. Len(tr) } = Nodes(s["a"])
      /\ \A j, k \in 1 .. Len(tr) : j # k => tr[j] # tr[k]

\* Two elements with an empty bucket between them and an empty bucket after
\* the last.
C4_Witness ==
  /\ bucket_count(s["a"]) = 4
  /\ BucketChain(s["a"], 0) = <<0>>
  /\ BucketChain(s["a"], 1) = <<>>
  /\ BucketChain(s["a"], 2) = <<2>>
  /\ BucketChain(s["a"], 3) = <<>>

-----------------------------------------------------------------------------
(* C5 *)

\* C5: between calls, every element stored in bucket i of a set has
\* hash(element) mod bucket_count() = i.
C5_BucketPlacement ==
  \A x \in Names : \A m \in Nodes(s[x]) :
    Hash(NodeData(s[x], m)) % bucket_count(s[x]) = m[1]

\* An insert has just grown the table of set b, which was default-constructed
\* with 8 buckets and so got its smaller table by a copy, a move or a swap,
\* and has placed its element outside bucket 0.
C5_Witness ==
  /\ ret.op = "insert"
  /\ ret.self = "b"
  /\ ret.second
  /\ ret.before.bucket_count < DefaultBuckets
  /\ bucket_count(s["b"]) > ret.before.bucket_count
  /\ ret.it.itVector > 0

-----------------------------------------------------------------------------
(* C6 *)

\* C6 (as claimed): an insert(t) of an absent t, called when the buckets
\* required for size() + 1 elements under the max load factor exceed
\* bucket_count(), leaves bucket_count() strictly larger, whatever size() is.
C6_GrowthWhenRequired ==
  [][\A t \in Values :
       (/\ ret'.op = "insert" /\ ret'.arg = t /\ Insert("a", t)
        /\ t \notin Elements(s["a"])
        /\ min_buckets_required(s["a"], size(s["a"]) + 1) > bucket_count(s["a"]))
       => bucket_count(s'["a"]) > bucket_count(s["a"])
    ]_vars

-----------------------------------------------------------------------------
(* C7 *)

\* C7: an insert(t) of a value not stored returns (it, TRUE) with it at the
\* new element t and equal to what find(t) returns right afterwards; size()
\* grows by one and every element stored before is still findable.
C7_SuccessfulInsert ==
  [][\A t \in Values :
       (/\ ret'.op = "insert" /\ ret'.arg = t /\ Insert("a", t)
        /\ t \notin Elements(s["a"]))
       => /\ ret'.second
          /\ AtElement(s'["a"], ret'.it)
          /\ IteratorDeref(s'["a"], ret'.it) = t
          /\ IteratorEq(ret'.it, find(s'["a"], t))
          /\ size(s'["a"]) = size(s["a"]) + 1
          /\ Elements(s'["a"]) = Elements(s["a"]) \cup {t}
          /\ \A v \in Elements(s["a"]) : Findable(s'["a"], v)
    ]_vars

\* An insert has just added a third element and grown the table doing so.
C7_Witness ==
  /\ ret.op = "insert"
  /\ ret.second
  /\ ret.before.size = 2
  /\ size(s["a"]) = 3
  /\ bucket_count(s["a"]) > ret.before.bucket_count

-----------------------------------------------------------------------------
(* C8 *)

\* C8 (as claimed): find(v) returns an iterator at a stored element equal to
\* v under EqPred exactly when the reference set, which is a set under
\* EqPred, contains v, and returns end() otherwise; a find call returns just
\* that and leaves size() and bucket_count() as they were.
C8_FindAgreesWithReference ==
  /\ \A v \in Values :
       IF RefContains(ref["a"], v)
       THEN /\ AtElement(s["a"], find(s["a"], v))
            /\ EqPred(IteratorDeref(s["a"], find(s["a"], v)), v)
       ELSE IteratorEq(find(s["a"], v), end(s["a"]))
  /\ ret.op = "find" =>
       /\ ret.it = find(s["a"], ret.arg)
       /\ ret.before = Before("a")

-----------------------------------------------------------------------------
(* C9 *)

\* The sequence seq without its entries equal to t.
Without(seq, t) == SelectSeq(seq, LAMBDA e : e # t)

\* C9: erase(t) of a stored t (stored as find sees it) makes size() one less and find(t) = end(), and
\* leaves every other element findable, each chain being the former chain
\* without t; erase(t) of a value not stored returns end() and changes
\* nothing.
C9_EraseRemovesOnlyTheValue ==
  [][\A t \in Values :
       (ret'.op = "erase" /\ ret'.arg = t /\ Erase("a", t))
       => IF t \in Elements(s["a"])
          THEN /\ size(s'["a"]) = size(s["a"]) - 1
               /\ IteratorEq(find(s'["a"], t), end(s'["a"]))
               /\ bucket_count(s'["a"]) = bucket_count(s["a"])
               /\ \A v \in Elements(s["a"]) \ {t} :
                    /\ Findable(s'["a"], v)
                    /\ find(s'["a"], v).itVector = find(s["a"], v).itVector
               /\ \A i \in DOMAIN s["a"].buckets :
                    BucketChain(s'["a"], i) = Without(BucketChain(s["a"], i), t)
          ELSE /\ IteratorEq(ret'.it, end(s["a"]))
               /\ s'["a"] = s["a"]
    ]_vars

\* An erase has just removed the middle element of a chain of three.
C9_Witness ==
  /\ ret.op = "erase"
  /\ ret.arg = 1
  /\ ret.before.size = 3
  /\ size(s["a"]) = 2
  /\ bucket(s["a"], 1) = 0
  /\ BucketChain(s["a"], 0) = <<0, 2>>

-----------------------------------------------------------------------------
(* C10 *)

\* The entries of seq after its first entry equal to t.
RECURSIVE After(_, _)
After(seq, t) ==
  IF seq = <<>> THEN <<>>
  ELSE IF Head(seq) = t THEN Tail(seq) ELSE After(Tail(seq), t)

\* C10: the iterator erase(t) returns for a stored t is at the element that
\* followed t in traversal order (end() if none did), and incrementing it on
\* visits exactly the elements that followed t, in their order.
C10_EraseReturnsNext ==
  [][\A t \in Values :
       (/\ ret'.op = "erase" /\ ret'.arg = t /\ Erase("a", t)
        /\ t \in Elements(s["a"]))
       => LET followers == After(VisitedFrom(s["a"], begin(s["a"])), t)
          IN  /\ followers = <<>> <=> IteratorEq(ret'.it, end(s'["a"]))
              /\ followers # <<>> =>
                   /\ AtElement(s'["a"], ret'.it)
                   /\ IteratorDeref(s'["a"], ret'.it) = Head(followers)
              /\ VisitedFrom(s'["a"], ret'.it) = followers
    ]_vars

\* An erase has just removed the last element of its bucket and returned an
\* iterator at the first element of a later bucket, past an empty one.
C10_Witness ==
  /\ ret.op = "erase"
  /\ ret.before.size = size(s["a"]) + 1
  /\ AtElement(s["a"], ret.it)
  /\ ret.it.itVector > (Hash(ret.arg) % bucket_count(s["a"])) + 1

-----------------------------------------------------------------------------
(* C11 *)

\* C11: an insert(t) of a stored t (stored as find sees it) leaves the set
\* exactly as it was: size(), bucket_count(), max_load_factor() and every
\* chain with its order, also when one more element would need more buckets;
\* it returns FALSE with an iterator at the stored t.
C11_DuplicateInsertChangesNothing ==
  [][\A t \in Values :
       (/\ ret'.op = "insert" /\ ret'.arg = t /\ Insert("a", t)
        /\ t \in Elements(s["a"]))
       => /\ s'["a"] = s["a"]
          /\ ~ret'.second
          /\ IteratorEq(ret'.it, find(s["a"], t))
          /\ IteratorDeref(s["a"], ret'.it) = t
    ]_vars

\* An insert of a stored value has just been rejected in a set of two
\* elements for which a third element would need more buckets.
C11_Witness ==
  /\ ret.op = "insert"
  /\ ~ret.second
  /\ ret.arg \in Elements(s["a"])
  /\ size(s["a"]) = 2
  /\ min_buckets_required(s["a"], size(s["a"]) + 1) > bucket_count(s["a"])

-----------------------------------------------------------------------------
(* C12 *)

\* C12: no call on the set makes bucket_count() smaller, and a rehash(n) with
\* n <= bucket_count() leaves the set exactly as it was.
C12_MonotonicGrowth ==
  [][/\ bucket_count(s'["a"]) >= bucket_count(s["a"])
     /\ \A n \in 1 .. (MaxBuckets + 1) :
          (ret'.op = "rehash" /\ n <= bucket_count(s["a"]) /\ Rehash("a", n))
          => s'["a"] = s["a"]
    ]_vars

\* A rehash has just left alone a set of two elements whose table an earlier
\* call had grown beyond what the constructor and rehash are called with.
C12_Witness ==
  /\ ret.op = "rehash"
  /\ ret.before.bucket_count = bucket_count(s["a"])
  /\ bucket_count(s["a"]) > MaxBuckets + 1
  /\ size(s["a"]) = 2

-----------------------------------------------------------------------------
(* C13 *)

\* C13: after x = std::move(y), x has the size, the elements and the chains
\* y had, and y is an empty set of 8 buckets with max load factor 1.0 and
\* size() = 0 equal to the sum of its bucket sizes, on which find(t) returns
\* end() and insert(t) stores t and returns TRUE.
C13_MoveAssign ==
  [][\A x \in Names : \A y \in Names \ {x} :
       (ret'.op = "move_assign" /\ ret'.self = x /\ ret'.arg = y /\ MoveAssign(x, y))
       => /\ size(s'[x]) = size(s[y])
          /\ Elements(s'[x]) = Elements(s[y])
          /\ bucket_count(s'[x]) = bucket_count(s[y])
          /\ \A i \in DOMAIN s[y].buckets : BucketChain(s'[x], i) = BucketChain(s[y], i)
          /\ s'[x].maxLoadFactor = s[y].maxLoadFactor
          /\ size(s'[y]) = 0
          /\ bucket_count(s'[y]) = DefaultBuckets
          /\ s'[y].maxLoadFactor = One
          /\ SumBucketSizes(s'[y], 0) = size(s'[y])
          /\ Elements(s'[y]) = {}
          /\ IteratorEq(begin(s'[y]), end(s'[y]))
          /\ \A t \in PairValues : \A r \in {insert(s'[y], t)} :
               /\ IteratorEq(find(s'[y], t), end(s'[y]))
               /\ r.second
               /\ size(r.set) = 1
               /\ Findable(r.set, t)
    ]_vars

\* A move assignment has just given its receiver two elements and a max load
\* factor that is not 1.0, and left the source empty with 8 buckets.
C13_Witness ==
  /\ ret.op = "move_assign"
  /\ size(s[ret.self]) = 2
  /\ s[ret.self].maxLoadFactor # One
  /\ bucket_count(s[ret.self]) # DefaultBuckets
  /\ size(s[ret.arg]) = 0
  /\ bucket_count(s[ret.arg]) = DefaultBuckets

-----------------------------------------------------------------------------
(* C14 *)

\* The addresses met from p on by following pNext, at most `fuel' of them; a
\* walk that leaves the list's nodes or outlasts its fuel ends in nullptr.
RECURSIVE WalkNext(_, _, _)
WalkNext(l, p, fuel) ==
  IF p = nullptr THEN <<>>
  ELSE IF p \notin DOMAIN l.node \/ fuel = 0 THEN <<nullptr>>
  ELSE <<p>> \o WalkNext(l, l.node[p].pNext, fuel - 1)

\* Likewise by following pPrev.
RECURSIVE WalkPrev(_, _, _)
WalkPrev(l, p, fuel) ==
  IF p = nullptr THEN <<>>
  ELSE IF p \notin DOMAIN l.node \/ fuel = 0 THEN <<nullptr>>
  ELSE <<p>> \o WalkPrev(l, l.node[p].pPrev, fuel - 1)

Forward(l) == WalkNext(l, l.pHead, l.numElements)
Backward(l) == WalkPrev(l, l.pTail, l.numElements)

WellFormed(l) ==
  LET fw == Forward(l)
      bw == Backward(l)
      n  == l.numElements
  IN  /\ (l.pHead = nullptr) <=> (n = 0)
      /\ (l.pTail = nullptr) <=> (n = 0)
      /\ Len(fw) = n
      /\ Len(bw) = n
      /\ \A k \in 1 .. n : fw[k] # nullptr /\ fw[k] = bw[n + 1 - k]
      /\ n > 0 =>
           /\ fw[n] = l.pTail
           /\ bw[n] = l.pHead
           /\ l.node[l.pHead].pPrev = nullptr
           /\ l.node[l.pTail].pNext = nullptr
      /\ \A k \in 1 .. (n - 1) :
           /\ l.node[fw[k]].pNext = fw[k + 1]
           /\ l.node[fw[k + 1]].pPrev = fw[k]

\* C14: after every call, the list and the list it was copied from, moved
\* from or swapped with have head null iff tail null iff count 0, a head
\* without predecessor, a tail without successor, every adjacent pair linked
\* both ways, and a walk from either end that visits exactly count nodes and
\* stops at the other end.
C14_ChainWellFormed ==
  /\ WellFormed(lst)
  /\ WellFormed(lret.other)

\* A swap has just exchanged a list of three nodes, whose first node is not
\* the one allocated first, for a list of two.
C14_Witness ==
  /\ lret.op = "swap"
  /\ list_size(lret.other) = 3
  /\ lret.other.pHead # 1
  /\ lret.other.node[lret.other.pHead].pNext # 2
  /\ list_size(lst) = 2

-----------------------------------------------------------------------------
(* C15 *)

\* C15: erase(it) at a node of the list removes that node and no other: the
\* walk from the head is the former walk without it, one shorter, over nodes
\* that keep their data, the list is well linked both ways and the node's
\* address is no longer a node; the iterator returned is at the node that
\* followed, or end(). erase(end()) returns end() and changes nothing.
C15_ChainErase ==
  [][\A it \in ListPositions :
       (lret'.op = "erase" /\ lret'.it = it /\ ListErase(it))
       => IF it = list_end(lst)
          THEN /\ lst' = lst
               /\ lret'.itRet = list_end(lst)
          ELSE /\ Forward(lst') = SelectSeq(Forward(lst), LAMBDA q : q # it)
               /\ Len(Forward(lst')) = Len(Forward(lst)) - 1
               /\ list_size(lst') = list_size(lst) - 1
               /\ \A k \in 1 .. Len(Forward(lst')) :
                    lst'.node[Forward(lst')[k]].data = lst.node[Forward(lst')[k]].data
               /\ WellFormed(lst')
               /\ DOMAIN lst'.node = (DOMAIN lst.node) \ {it}
               /\ lret'.itRet = lst.node[it].pNext
    ]_vars

\* An erase has just removed the middle node of a list of three and returned
\* an iterator at the tail.
C15_Witness ==
  /\ lret.op = "erase"
  /\ lret.before = 3
  /\ list_size(lst) = 2
  /\ lret.itRet = lst.pTail
  /\ lret.it # nullptr
  /\ lst.node[lst.pTail].pPrev = lst.pHead

-----------------------------------------------------------------------------
(* C16 *)

\* seq with e put in before its entry number k (after the last if k is
\* Len(seq) + 1).
InsertAt(seq, k, e) == SubSeq(seq, 1, k - 1) \o <<e>> \o SubSeq(seq, k, Len(seq))

\* The place of address p in the walk from the head, Len + 1 for end().
RECURSIVE IndexOf(_, _)
IndexOf(seq, p) ==
  IF seq = <<>> \/ Head(seq) = p THEN 1 ELSE 1 + IndexOf(Tail(seq), p)

\* C16: insert(it, data) returns an iterator at a new node holding data, which
\* sits just before it's node (its pNext is it, its pPrev it's former pPrev),
\* last when it is end(), alone when the list was empty; the count is one
\* more and the former nodes keep their order and data.
C16_ChainInsert ==
  [][\A it \in ListPositions : \A data \in ListValues :
       (lret'.op = "insert" /\ lret'.it = it /\ lret'.data = data /\ ListInsert(it, data))
       => LET pNew == lret'.itRet
          IN  /\ pNew \notin DOMAIN lst.node
              /\ pNew \in DOMAIN lst'.node
              /\ lst'.node[pNew].data = data
              /\ lst'.node[pNew].pNext = it
              /\ lst'.node[pNew].pPrev =
                   IF it = list_end(lst) THEN lst.pTail ELSE lst.node[it].pPrev
              /\ Forward(lst') = InsertAt(Forward(lst), IndexOf(Forward(lst), it), pNew)
              /\ list_size(lst') = list_size(lst) + 1
              /\ \A q \in DOMAIN lst.node : lst'.node[q].data = lst.node[q].data
              /\ WellFormed(lst')
              /\ list_empty(lst) => lst'.pHead = pNew /\ lst'.pTail = pNew
              /\ it = list_end(lst) => lst'.pTail = pNew
    ]_vars

\* An insert has just put a node between the head and the tail of a list of
\* two.
C16_Witness ==
  /\ lret.op = "insert"
  /\ lret.before = 2
  /\ list_size(lst) = 3
  /\ lret.it = lst.pTail
  /\ lst.node[lret.itRet].pPrev = lst.pHead

-----------------------------------------------------------------------------
(* C17 *)

Min(a, b) == IF a < b THEN a ELSE b

\* C17: after lst = rhs the list has rhs's length and data sequence and is
\* well linked, rhs is still the list it was constructed as, the first min(|lst|, |rhs|) nodes are the
\* nodes the list had there before, the nodes the list had beyond are gone
\* and the nodes it lacked are new ones.
C17_ChainCopyAssign ==
  [][(lret'.op = "copy_assign" /\ ListCopyAssign(lret'.other))
     => LET rhs  == lret'.other
            seq  == Chain(rhs)
            kept == Min(list_size(lst), Len(seq))
            old  == Forward(lst)
            new  == Forward(lst')
        IN  /\ rhs = list_range(EmptyList, seq)
            /\ Chain(lst') = seq
            /\ list_size(lst') = Len(seq)
            /\ Len(new) = Len(seq)
            /\ WellFormed(lst')
            /\ \A k \in 1 .. kept : new[k] = old[k]
            /\ \A k \in (kept + 1) .. list_size(lst) : old[k] \notin DOMAIN lst'.node
            /\ \A k \in (kept + 1) .. Len(seq) : new[k] \notin DOMAIN lst.node
            /\ Cardinality(DOMAIN lst'.node) = Len(seq)
    ]_vars

\* A copy assignment from a list of two has just left a list of three with
\* two nodes, the ones it had first, and with other data in them.
C17_Witness ==
  /\ lret.op = "copy_assign"
  /\ lret.before = 3
  /\ list_size(lret.other) = 2
  /\ list_size(lst) = 2
  /\ lst.pHead # 1
  /\ Chain(lst) = <<1, 0>>

-----------------------------------------------------------------------------
(* C18 *)

\* C18: front() and back() throw exactly when the list has no element, and
\* otherwise return the data of the first and of the last node of the walk
\* from the head; either way the list is left as it was.
C18_FrontBack ==
  [][/\ (lret'.op = "front" /\ ListFront) =>
          /\ lst' = lst
          /\ lret'.threw <=> (Chain(lst) = <<>>)
          /\ ~lret'.threw => lret'.dataRet = Chain(lst)[1]
     /\ (lret'.op = "back" /\ ListBack) =>
          /\ lst' = lst
          /\ lret'.threw <=> (Chain(lst) = <<>>)
          /\ ~lret'.threw => lret'.dataRet = Chain(lst)[Len(Chain(lst))]
    ]_vars

\* front() has just thrown on a list that is empty.
C18_Witness ==
  /\ lret.op = "front"
  /\ lret.threw
  /\ list_empty(lst)
  /\ lst.pHead = nullptr

-----------------------------------------------------------------------------
(* C19 *)

\* C19 (as claimed): with bucket_count() > 0, load_factor() is the fraction
\* size() / bucket_count(): load_factor() * bucket_count() = size().
C19_LoadFactorIsTheFraction ==
  bucket_count(s["a"]) > 0 =>
    load_factor(s["a"]).num * bucket_count(s["a"]) = size(s["a"]) * load_factor(s["a"]).den

-----------------------------------------------------------------------------
(* C20 *)

\* The least integer that is not below num / m.
CeilDiv(num, m) == (num * m.den + m.num - 1) \div m.num

\* C20 (as claimed): after reserve(num), bucket_count() is at least
\* ceil(num / maxLoadFactor), also when num / maxLoadFactor is not an integer.
C20_ReserveRoundsUp ==
  [][\A num \in 0 .. MaxReserve :
       (ret'.op = "reserve" /\ Reserve("a", num))
       => bucket_count(s'["a"]) >= CeilDiv(num, s["a"].maxLoadFactor)
    ]_vars

-----------------------------------------------------------------------------
(* C21 *)

\* The chains of a set, bucket by bucket.
Chains(set) == [i \in DOMAIN set.buckets |-> BucketChain(set, i)]

\* Sets with the same size(), bucket_count(), max load factor and chains.
SameContents(set1, set2) ==
  /\ size(set1) = size(set2)
  /\ bucket_count(set1) = bucket_count(set2)
  /\ set1.maxLoadFactor = set2.maxLoadFactor
  /\ Chains(set1) = Chains(set2)

-----------------------------------------------------------------------------
(* C22 *)

\* C22: clear() leaves every bucket's chain empty and without nodes and
\* size() = 0, leaves bucket_count() and max_load_factor() as they were, and
\* afterwards begin() = end() and find(v) = end() for every v.
C22_ClearEmptiesEveryBucket ==
  [][(ret'.op = "clear" /\ Clear("a"))
     => LET new == s'["a"]
        IN  /\ \A i \in DOMAIN new.buckets :
                 /\ BucketChain(new, i) = <<>>
                 /\ new.buckets[i] = EmptyList
            /\ size(new) = 0
            /\ bucket_count(new) = bucket_count(s["a"])
            /\ new.maxLoadFactor = s["a"].maxLoadFactor
            /\ IteratorEq(begin(new), end(new))
            /\ \A v \in Values : IteratorEq(find(new, v), end(new))
    ]_vars

\* A clear has just emptied a set of three elements in three buckets whose max
\* load factor is not 1.0.
C22_Witness ==
  /\ ret.op = "clear"
  /\ ret.before.size = 3
  /\ cfg = "std"
  /\ bucket_count(s["a"]) = 3
  /\ s["a"].maxLoadFactor # One
  /\ size(s["a"]) = 0

-----------------------------------------------------------------------------
(* C23 *)

\* Bucket i holds the last element of the set: it is not empty and every
\* bucket after it is.
HoldsLast(set, i) ==
  /\ ~list_empty(set.buckets[i])
  /\ \A j \in DOMAIN set.buckets : j > i => list_empty(set.buckets[j])

\* The iterator at the last node of bucket i's chain.
AtChainEnd(set, i) == Iterator(vector_end(set.buckets), i, set.buckets[i].pTail)

\* C23: in whichever bucket the last element of the set is, and however many
\* empty buckets follow it, incrementing the iterator at it gives an iterator
\* with the bucket position, the bucket end and the chain position of end();
\* incrementing end(), or that iterator, changes nothing.
C23_IncrementTerminates ==
  LET set == s["a"]
  IN  /\ \A i \in DOMAIN set.buckets :
           HoldsLast(set, i) =>
             LET it == IteratorIncrement(set, AtChainEnd(set, i))
             IN  /\ it.itVector = end(set).itVector
                 /\ it.itVectorEnd = end(set).itVectorEnd
                 /\ it.itList = end(set).itList
                 /\ IteratorEq(it, end(set))
                 /\ IteratorIncrement(set, it) = it
      /\ IteratorIncrement(set, end(set)) = end(set)

\* The last element is in bucket 1, with two empty buckets after it and a
\* chain of two elements before it in bucket 0.
C23_Witness ==
  /\ bucket_count(s["a"]) = 4
  /\ Len(BucketChain(s["a"], 0)) = 2
  /\ Len(BucketChain(s["a"], 1)) = 1
  /\ HoldsLast(s["a"], 1)

-----------------------------------------------------------------------------
(* C24 *)

\* The local iterators a traversal of bucket i that starts at `it' stops at
\* before it reaches end(i), in order; a traversal that leaves the bucket's
\* nodes or is still going after `fuel' steps ends in LocalIterator(-1).
RECURSIVE LocalTraverseFrom(_, _, _, _)
LocalTraverseFrom(set, i, it, fuel) ==
  IF LocalIteratorEq(it, end_bucket(set, i)) THEN <<>>
  ELSE IF fuel = 0 \/ it.itList \notin DOMAIN set.buckets[i].node
       THEN <<LocalIterator(-1)>>
       ELSE <<it>> \o LocalTraverseFrom(set, i, LocalIteratorIncrement(set, i, it), fuel - 1)

LocalTraversal(set, i) ==
  LocalTraverseFrom(set, i, begin_bucket(set, i), Cardinality(DOMAIN set.buckets[i].node) + 1)

\* C24: for every bucket i, incrementing from begin(i) reaches end(i) after
\* exactly bucket_size(i) increments; it stops at every node of bucket i once,
\* in chain order from the head to the tail, and at nothing else, so that the
\* values it visits all belong in bucket i and the traversals of all buckets
\* together visit the elements of the set; begin(i) = end(i) if bucket i is
\* empty.
C24_LocalIteratorConfinement ==
  LET set == s["a"]
  IN  /\ \A i \in DOMAIN set.buckets :
           LET tr == LocalTraversal(set, i)
               n  == bucket_size(set, i)
           IN  /\ Len(tr) = n
               /\ \A k \in 1 .. Len(tr) : tr[k].itList \in DOMAIN set.buckets[i].node
               /\ { tr[k].itList : k \in 1 .. Len(tr) } = DOMAIN set.buckets[i].node
               /\ \A j, k \in 1 .. Len(tr) : j # k => tr[j] # tr[k]
               /\ n > 0 => /\ tr[1].itList = set.buckets[i].pHead
                           /\ tr[n].itList = set.buckets[i].pTail
               /\ \A k \in 2 .. Len(tr) :
                    set.buckets[i].node[tr[k].itList].pPrev = tr[k - 1].itList
               /\ \A k \in 1 .. Len(tr) :
                    bucket(set, LocalIteratorDeref(set, i, tr[k])) = i
               /\ n = 0 <=> LocalIteratorEq(begin_bucket(set, i), end_bucket(set, i))
      /\ UNION { { LocalIteratorDeref(set, i, LocalTraversal(set, i)[k]) :
                     k \in 1 .. bucket_size(set, i) } : i \in DOMAIN set.buckets }
           = Elements(set)

\* A chain of two elements in bucket 0, one element in bucket 1 and an empty
\* bucket 2.
C24_Witness ==
  /\ bucket_count(s["a"]) = 3
  /\ bucket_size(s["a"], 0) = 2
  /\ bucket_size(s["a"], 1) = 1
  /\ bucket_size(s["a"], 2) = 0
  /\ Len(LocalTraversal(s["a"], 0)) = 2
  /\ LocalIteratorEq(begin_bucket(s["a"], 2), end_bucket(s["a"], 2))

-----------------------------------------------------------------------------
(* C25 *)

\* C25: a set constructed with at least one bucket, on which
\* max_load_factor(float) is never called, has max load factor 1.0 and
\* size() <= bucket_count() after every insert, erase, clear, rehash and
\* reserve; an insert that has grown the table has left at least as many
\* buckets as elements.
C25_LoadBound ==
  /\ s["a"].maxLoadFactor = One
  /\ size(s["a"]) <= bucket_count(s["a"])
  /\ (ret.op = "insert" /\ bucket_count(s["a"]) > ret.before.bucket_count)
     => /\ size(s["a"]) = ret.before.size + 1
        /\ bucket_count(s["a"]) >= ret.before.size + 1

\* An insert into a set with as many elements as buckets has just grown the
\* table from 2 to 4 buckets and stored a third element.
C25_Witness ==
  /\ ret.op = "insert"
  /\ ret.second
  /\ ret.before.size = 2
  /\ ret.before.bucket_count = 2
  /\ size(s["a"]) = 3
  /\ bucket_count(s["a"]) = 4
  /\ s["a"].maxLoadFactor = One

-----------------------------------------------------------------------------
(* C26 *)

\* C26 (as claimed): in every reachable state of a set constructed with any
\* requested bucket count, 0 included, the subscripts of the bucket table
\* that find, insert, erase, begin and end make are all below the
\* bucket_count() the table has when they are made.
C26_BucketIndexSafety ==
  /\ InRange(begin_Subscripts(s["a"]))
  /\ InRange(end_Subscripts(s["a"]))
  /\ \A t \in Values :
       /\ InRange(find_Subscripts(s["a"], t))
       /\ InRange(insert_Subscripts(s["a"], t))
       /\ InRange(erase_Subscripts(s["a"], t))

-----------------------------------------------------------------------------
(* C27 *)

\* The values an initializer list names.
Listed(il) == { il[k] : k \in 1 .. Len(il) }

\* C27: assigning an initializer list to a set removes nothing and stores
\* every listed value once: the elements afterwards are the former elements
\* and the listed values, one node each, size() is the number of values of
\* that union, and all of them are findable.
C27_InitializerListAssignAdds ==
  [][\A il \in InitializerLists :
       (ret'.op = "assign_il" /\ ret'.arg = il /\ AssignIl("a", il))
       => LET old   == s["a"]
              new   == s'["a"]
              union == Elements(old) \cup Listed(il)
          IN  /\ Elements(new) = union
              /\ size(new) = Cardinality(union)
              /\ Cardinality(Nodes(new)) = Cardinality(union)
              /\ SumBucketSizes(new, 0) = Cardinality(union)
              /\ \A v \in union : Findable(new, v)
              /\ new.maxLoadFactor = old.maxLoadFactor
              /\ bucket_count(new) >= bucket_count(old)
    ]_vars

\* A list that names one value twice has just been assigned to a set that
\* held one other value: the set holds both.
C27_Witness ==
  /\ ret.op = "assign_il"
  /\ Len(ret.arg) = 2
  /\ Cardinality(Listed(ret.arg)) = 1
  /\ ret.before.size = 1
  /\ size(s["a"]) = 2
  /\ Elements(s["a"]) # Listed(ret.arg)

=============================================================================
